---- MODULE Spec2Model ----
(***************************************************************************)
(* Food donation dashboard (food_management/food.py): one SQLite database  *)
(* of Providers, Receivers, Food_Listings and Claims, and a script that is *)
(* run from top to bottom on every interaction: init_db, the filtered      *)
(* listing query, one CRUD operation, then the analytic reports.           *)
(*                                                                         *)
(* TEXT values are sequences of one-character strings, so that LIKE,       *)
(* strftime and date() are modelled by what they do to the characters.     *)
(***************************************************************************)
EXTENDS Integers, Sequences, FiniteSets, TLC

VARIABLES Providers, Receivers, Food_Listings, Claims,
          pc, today, filters, filtered, crud_choice, status, rowcount, reports

tables == <<Providers, Receivers, Food_Listings, Claims>>
vars == <<Providers, Receivers, Food_Listings, Claims,
          pc, today, filters, filtered, crud_choice, status, rowcount, reports>>

-----------------------------------------------------------------------------
(* Bounds of the model *)

\* Food IDs the Create/Update/Delete forms choose from are 1..MaxFoodId
MaxFoodId == 3

-----------------------------------------------------------------------------
(* Text literals *)

Empty == <<>>
Hyderabad == <<"H","y","d","e","r","a","b","a","d">>
Mumbai == <<"M","u","m","b","a","i">>
Delhi == <<"D","e","l","h","i">>
FoodBankHyderabad == <<"F","o","o","d","B","a","n","k"," ">> \o Hyderabad
FreshMart == <<"F","r","e","s","h","M","a","r","t">>
HelpingHands == <<"H","e","l","p","i","n","g"," ","H","a","n","d","s">>
CityShelter == <<"C","i","t","y"," ","S","h","e","l","t","e","r">>
NGO == <<"N","G","O">>
Supermarket == <<"S","u","p","e","r","m","a","r","k","e","t">>
RiceBags == <<"R","i","c","e"," ","B","a","g","s">>
BreadPackets == <<"B","r","e","a","d"," ","P","a","c","k","e","t","s">>
Milk == <<"M","i","l","k">>
Grain == <<"G","r","a","i","n">>
Bakery == <<"B","a","k","e","r","y">>
Dairy == <<"D","a","i","r","y">>
Lunch == <<"L","u","n","c","h">>
Breakfast == <<"B","r","e","a","k","f","a","s","t">>
Dinner == <<"D","i","n","n","e","r">>
Completed == <<"C","o","m","p","l","e","t","e","d">>
Pending == <<"P","e","n","d","i","n","g">>
Phone1 == <<"9","9","9","9","9","9","9","9","9","9">>
Phone2 == <<"8","8","8","8","8","8","8","8","8","8">>
Phone3 == <<"7","7","7","7","7","7","7","7","7","7">>
Phone4 == <<"6","6","6","6","6","6","6","6","6","6">>

-----------------------------------------------------------------------------
(* Characters *)

UpperCase == <<"A","B","C","D","E","F","G","H","I","J","K","L","M",
               "N","O","P","Q","R","S","T","U","V","W","X","Y","Z">>
LowerCase == <<"a","b","c","d","e","f","g","h","i","j","k","l","m",
               "n","o","p","q","r","s","t","u","v","w","x","y","z">>
Digits == <<"0","1","2","3","4","5","6","7","8","9">>

Chars ==
    { UpperCase[i] : i \in 1..26 } \cup { LowerCase[i] : i \in 1..26 }
        \cup { Digits[i] : i \in 1..10 } \cup { " ", "%", "_", "-" }

\* SQLite folds the 26 ASCII upper-case letters when LIKE compares characters
Fold ==
    [c \in Chars |->
        IF \E i \in 1..26 : UpperCase[i] = c
        THEN LowerCase[CHOOSE i \in 1..26 : UpperCase[i] = c]
        ELSE c]

Lower(c) == Fold[c]

DigitChar(n) == Digits[n + 1]

DigitOf == [c \in { Digits[i] : i \in 1..10 } |-> (CHOOSE i \in 1..10 : Digits[i] = c) - 1]

DigitVal(c) == DigitOf[c]

-----------------------------------------------------------------------------
(* Dates: datetime.date, strftime('%Y-%m-%d') and SQLite's date() *)

Min(a, b) == IF a < b THEN a ELSE b

\* date.strftime('%Y-%m-%d') of the date <<year, month, day>>
strftime(d) ==
    << DigitChar(d[1] \div 1000), DigitChar((d[1] \div 100) % 10),
       DigitChar((d[1] \div 10) % 10), DigitChar(d[1] % 10), "-",
       DigitChar(d[2] \div 10), DigitChar(d[2] % 10), "-",
       DigitChar(d[3] \div 10), DigitChar(d[3] % 10) >>

\* SQLite reads the text YYYY-MM-DD into year, month and day
ParseYMD(t) ==
    << 1000 * DigitVal(t[1]) + 100 * DigitVal(t[2]) + 10 * DigitVal(t[3]) + DigitVal(t[4]),
       10 * DigitVal(t[6]) + DigitVal(t[7]),
       10 * DigitVal(t[9]) + DigitVal(t[10]) >>

\* SQLite computeJD: the Julian day number (at noon) of a year, month, day
ComputeJD(ymd) ==
    LET Y == IF ymd[2] <= 2 THEN ymd[1] - 1 ELSE ymd[1]
        M == IF ymd[2] <= 2 THEN ymd[2] + 12 ELSE ymd[2]
        A == Y \div 100
        B == 2 - A + (A \div 4)
        X1 == (36525 * (Y + 4716)) \div 100
        X2 == (306001 * (M + 1)) \div 10000
    IN  X1 + X2 + ymd[3] + B - 1524

\* SQLite computeYMD: year, month, day of a Julian day number
ComputeYMD(Z) ==
    LET A0 == (4 * Z - 7468865) \div 146097
        A == Z + 1 + A0 - (A0 \div 4)
        B == A + 1524
        C == (100 * B - 12210) \div 36525
        D == (36525 * C) \div 100
        E == ((B - D) * 10000) \div 306001
        X1 == (306001 * E) \div 10000
        day == B - D - X1
        month == IF E < 14 THEN E - 1 ELSE E - 13
        year == IF month > 2 THEN C - 4716 ELSE C - 4715
    IN  <<year, month, day>>

\* SQLite date(text, '+n day'): parse, shift the Julian day, print as YYYY-MM-DD
SqlDate(t, n) == strftime(ComputeYMD(ComputeJD(ParseYMD(t)) + n))

\* Character codes of the characters a date text is made of
Ord(c) == IF c = "-" THEN 45 ELSE 48 + DigitVal(c)

\* TEXT comparison a < b under the BINARY collation
TextLess(a, b) ==
    \/ \E i \in 1..Min(Len(a), Len(b)) :
          /\ Ord(a[i]) < Ord(b[i])
          /\ \A j \in 1..(i - 1) : a[j] = b[j]
    \/ /\ Len(a) < Len(b)
       /\ \A j \in 1..Len(a) : a[j] = b[j]

TextLeq(a, b) == a = b \/ TextLess(a, b)

-----------------------------------------------------------------------------
(* LIKE *)

RECURSIVE Like(_, _)
\* text LIKE pattern: % is any run of characters, _ is any one character,
\* any other character matches itself without regard to ASCII case
Like(pattern, text) ==
    IF pattern = <<>> THEN text = <<>>
    ELSE IF Head(pattern) = "%"
         THEN \/ Like(Tail(pattern), text)
              \/ text # <<>> /\ Like(pattern, Tail(text))
    ELSE IF text = <<>> THEN FALSE
    ELSE IF Head(pattern) = "_" THEN Like(Tail(pattern), Tail(text))
    ELSE Lower(Head(pattern)) = Lower(Head(text)) /\ Like(Tail(pattern), Tail(text))

-----------------------------------------------------------------------------
(* Schema and seed data *)

Provider(id, name, ptype, contact, city) ==
    [Provider_ID |-> id, Name |-> name, Provider_Type |-> ptype,
     Contact |-> contact, City |-> city]

Receiver(id, name, contact, city) ==
    [Receiver_ID |-> id, Name |-> name, Contact |-> contact, City |-> city]

Listing(id, name, ftype, mtype, qty, expiry, pid, loc) ==
    [Food_ID |-> id, Food_Name |-> name, Food_Type |-> ftype, Meal_Type |-> mtype,
     Quantity |-> qty, Expiry_Date |-> expiry, Provider_ID |-> pid, Location |-> loc]

Claim(id, fid, rid, st) ==
    [Claim_ID |-> id, Food_ID |-> fid, Receiver_ID |-> rid, Status |-> st]

SeedProviders ==
    { Provider(1, FoodBankHyderabad, NGO, Phone1, Hyderabad),
      Provider(2, FreshMart, Supermarket, Phone2, Mumbai) }

SeedReceivers ==
    { Receiver(1, HelpingHands, Phone3, Hyderabad),
      Receiver(2, CityShelter, Phone4, Mumbai) }

Text_2025_08_20 == <<"2","0","2","5","-","0","8","-","2","0">>
Text_2025_08_18 == <<"2","0","2","5","-","0","8","-","1","8">>

SeedListings ==
    { Listing(1, RiceBags, Grain, Lunch, 100, Text_2025_08_20, 1, Hyderabad),
      Listing(2, BreadPackets, Bakery, Breakfast, 50, Text_2025_08_18, 2, Mumbai) }

SeedClaims ==
    { Claim(1, 1, 1, Completed), Claim(2, 2, 2, Pending) }

\* init_db that looks at Food_Listings to decide whether to seed
init_db_ListingsEmpty(P, R, F, C) ==
    IF Cardinality(F) = 0
    THEN [P |-> P \cup SeedProviders, R |-> R \cup SeedReceivers,
          F |-> F \cup SeedListings, C |-> C \cup SeedClaims]
    ELSE [P |-> P, R |-> R, F |-> F, C |-> C]

\* init_db: the tables exist after CREATE TABLE IF NOT EXISTS; the sample
\* rows are inserted only when SELECT COUNT(*) FROM Providers is 0
init_db(P, R, F, C) ==
    IF Cardinality(P) = 0
    THEN [P |-> P \cup SeedProviders, R |-> R \cup SeedReceivers,
          F |-> F \cup SeedListings, C |-> C \cup SeedClaims]
    ELSE [P |-> P, R |-> R, F |-> F, C |-> C]

-----------------------------------------------------------------------------
(* Filtered listings *)

\* f"%{filter}%"
Wrap(filter) == <<"%">> \o filter \o <<"%">>

\* SELECT * FROM Food_Listings WHERE 1=1, with one AND clause for every
\* filter that is not the empty string
FilteredListings(F, P, f) ==
    { r \in F :
        /\ f.city # Empty => Like(Wrap(f.city), r.Location)
        /\ f.provider # Empty =>
              r.Provider_ID \in { p.Provider_ID : p \in { q \in P : Like(Wrap(f.provider), q.Name) } }
        /\ f.food_type # Empty => Like(Wrap(f.food_type), r.Food_Type) }

-----------------------------------------------------------------------------
(* Record mutator *)

\* Food_ID declared without PRIMARY KEY
UniqueViolation_NoKey(F, food_id) == FALSE

\* Food_ID INTEGER PRIMARY KEY: an INSERT of an id the table holds is refused
UniqueViolation(F, food_id) == \E r \in F : r.Food_ID = food_id

\* UPDATE without the WHERE clause
UpdateQuantity_NoWhere(F, fid, new_qty) ==
    { [r EXCEPT !.Quantity = new_qty] : r \in F }

\* UPDATE Food_Listings SET Quantity=? WHERE Food_ID=?
UpdateQuantity(F, fid, new_qty) ==
    { IF r.Food_ID = fid THEN [r EXCEPT !.Quantity = new_qty] ELSE r : r \in F }

\* DELETE with WHERE Food_ID<=?
DeleteListing_UpTo(F, fid) == { r \in F : r.Food_ID > fid }

\* DELETE FROM Food_Listings WHERE Food_ID=?
DeleteListing(F, fid) == { r \in F : r.Food_ID # fid }

\* cursor.rowcount of an UPDATE or DELETE with WHERE Food_ID=?
Matched(F, fid) == Cardinality({ r \in F : r.Food_ID = fid })

-----------------------------------------------------------------------------
(* Reports *)

\* LIMIT 10
ReportLimit == 10

SqlNull == [null |-> TRUE, val |-> 0]
SqlInt(n) == [null |-> FALSE, val |-> n]

\* What the page shows for one report: nothing yet, the rows of the query,
\* or the warning "Query failed"
NotRun == [state |-> "not run", rows |-> <<>>]
Succeeded(rows) == [state |-> "ok", rows |-> rows]
QueryFailed == [state |-> "failed", rows |-> <<>>]

\* The orders in which ORDER BY may return the rows of S: before holds the
\* pairs <<a, b>> where a must come ahead of b, rows that tie come in any order
Ordered(S, before) ==
    { s \in [1..Cardinality(S) -> S] :
        /\ \A i, j \in 1..Cardinality(S) : i # j => s[i] # s[j]
        /\ \A i, j \in 1..Cardinality(S) : i < j => <<s[j], s[i]>> \notin before }

Limit(s, n) == SubSeq(s, 1, Min(n, Len(s)))

\* The rows of Food_Listings in rowid order, the order of a table scan
RECURSIVE Scan(_)
Scan(F) ==
    IF F = {} THEN <<>>
    ELSE LET r == CHOOSE x \in F : \A y \in F : x.Food_ID <= y.Food_ID
         IN  <<r>> \o Scan(F \ {r})

RECURSIVE SumStep(_, _)
\* sum() over the scanned rows, acc the total so far.  The quantities of the
\* model are far from the ends of the 64-bit INTEGER range, where sum() fails
SumStep(rows, acc) ==
    IF rows = <<>> THEN acc
    ELSE SumStep(Tail(rows), acc + Head(rows).Quantity)

\* SELECT COALESCE(SUM(Quantity), 0)
TotalFoodAvailable_Coalesce(F) ==
    Succeeded(<< [Total_Quantity |-> SqlInt(SumStep(Scan(F), 0))] >>)

\* SELECT SUM(Quantity) AS Total_Quantity FROM Food_Listings: sum() of no
\* rows is NULL
TotalFoodAvailable(F) ==
    IF F = {} THEN Succeeded(<< [Total_Quantity |-> SqlNull] >>)
    ELSE Succeeded(<< [Total_Quantity |-> SqlInt(SumStep(Scan(F), 0))] >>)

\* SELECT f.Food_Name, COUNT(c.Claim_ID) AS Claims FROM Food_Listings f
\* LEFT JOIN Claims c ON c.Food_ID = f.Food_ID GROUP BY f.Food_Name
\* ORDER BY Claims DESC LIMIT 10: every order the query may return
ClaimsPerFoodItem(F, C) ==
    LET groups == { [Food_Name |-> n,
                     Claims |-> Cardinality({ <<f, c>> \in F \X C :
                                   f.Food_Name = n /\ c.Food_ID = f.Food_ID })]
                    : n \in { f.Food_Name : f \in F } }
        desc == { p \in groups \X groups : p[1].Claims > p[2].Claims }
    IN  { Succeeded(Limit(s, ReportLimit)) : s \in Ordered(groups, desc) }

\* The same report from Food_Listings f LEFT JOIN Claims c, COUNT(c.Claim_ID)
ClaimsByCity_LeftJoin(F, C) ==
    LET groups == { [City |-> l,
                     Claims |-> Cardinality({ <<f, c>> \in F \X C :
                                   f.Location = l /\ c.Food_ID = f.Food_ID })]
                    : l \in { f.Location : f \in F } }
        desc == { p \in groups \X groups : p[1].Claims > p[2].Claims }
    IN  { Succeeded(Limit(s, ReportLimit)) : s \in Ordered(groups, desc) }

\* SELECT f.Location AS City, COUNT(*) AS Claims FROM Claims c
\* JOIN Food_Listings f ON f.Food_ID = c.Food_ID GROUP BY f.Location
\* ORDER BY Claims DESC LIMIT 10: every order the query may return
ClaimsByCity(F, C) ==
    LET joined == { <<c, f>> \in C \X F : f.Food_ID = c.Food_ID }
        groups == { [City |-> l,
                     Claims |-> Cardinality({ j \in joined : j[2].Location = l })]
                    : l \in { j[2].Location : j \in joined } }
        desc == { p \in groups \X groups : p[1].Claims > p[2].Claims }
    IN  { Succeeded(Limit(s, ReportLimit)) : s \in Ordered(groups, desc) }

\* The same report with < in place of <=
ListingsNearExpiry_Strict(F, day) ==
    LET near == { [Food_ID |-> r.Food_ID, Food_Name |-> r.Food_Name,
                   Quantity |-> r.Quantity, Expiry_Date |-> r.Expiry_Date,
                   Location |-> r.Location]
                  : r \in { x \in F : TextLess(SqlDate(x.Expiry_Date, 0), SqlDate(day, 1)) } }
        asc == { p \in near \X near :
                   TextLess(SqlDate(p[1].Expiry_Date, 0), SqlDate(p[2].Expiry_Date, 0)) }
    IN  { Succeeded(s) : s \in Ordered(near, asc) }

\* SELECT Food_ID, Food_Name, Quantity, Expiry_Date, Location FROM Food_Listings
\* WHERE date(Expiry_Date) <= date('{today}', '+1 day')
\* ORDER BY date(Expiry_Date) ASC: every order the query may return
ListingsNearExpiry(F, day) ==
    LET near == { [Food_ID |-> r.Food_ID, Food_Name |-> r.Food_Name,
                   Quantity |-> r.Quantity, Expiry_Date |-> r.Expiry_Date,
                   Location |-> r.Location]
                  : r \in { x \in F : TextLeq(SqlDate(x.Expiry_Date, 0), SqlDate(day, 1)) } }
        asc == { p \in near \X near :
                   TextLess(SqlDate(p[1].Expiry_Date, 0), SqlDate(p[2].Expiry_Date, 0)) }
    IN  { Succeeded(s) : s \in Ordered(near, asc) }

-----------------------------------------------------------------------------
(* Inputs *)

FoodIds == 1..MaxFoodId

\* Values typed into the New Quantity input
QuantityInputs == {30}

\* What is typed into the Create form, the Food ID apart
FormInputs ==
    { [name |-> RiceBags, ftype |-> Grain, mtype |-> Dinner, qty |-> 30,
       expiry |-> <<2025, 8, 21>>, pid |-> 1, loc |-> Hyderabad],
      [name |-> Milk, ftype |-> Dairy, mtype |-> Breakfast, qty |-> 0 - 20,
       expiry |-> <<2026, 1, 1>>, pid |-> 3, loc |-> Delhi] }

Filters(city, provider, food_type) ==
    [city |-> city, provider |-> provider, food_type |-> food_type]

NoFilters == Filters(Empty, Empty, Empty)

\* What is typed into the three sidebar filters
FilterInputs ==
    { NoFilters,
      Filters(<<"m","u","m">>, Empty, Empty),
      Filters(<<"_">>, Empty, Empty),
      Filters(<<"h","Y">>, <<"b","a","n","k">>, <<"a","i">>) }

\* The day a run of the script happens on, and the filters it is run with
RunInputs ==
    { <<d, NoFilters>> : d \in { <<2025, 8, 19>>, <<2025, 12, 31>> } }
        \cup { << <<2025, 8, 19>>, f >> : f \in FilterInputs }

Titles == { "Total Food Available", "Claims Per Food Item",
            "Claims by City", "Listings Near Expiry" }

-----------------------------------------------------------------------------
(* The script *)

\* A new database file: no rows, and nothing of the script has run
Init ==
    /\ Providers = {} /\ Receivers = {} /\ Food_Listings = {} /\ Claims = {}
    /\ pc = "start"
    /\ today = Empty
    /\ filters = NoFilters
    /\ filtered = {}
    /\ crud_choice = ""
    /\ status = ""
    /\ rowcount = 0 - 1
    /\ reports = [t \in Titles |-> NotRun]

\* A run of the script begins: init_db(), today, the sidebar filters and the
\* filtered listing
Startup(day, f) ==
    /\ pc \in {"start", "done"}
    /\ LET db == init_db(Providers, Receivers, Food_Listings, Claims)
       IN  /\ Providers' = db.P
           /\ Receivers' = db.R
           /\ Food_Listings' = db.F
           /\ Claims' = db.C
           /\ filtered' = FilteredListings(db.F, db.P, f)
    /\ today' = strftime(day)
    /\ filters' = f
    /\ crud_choice' = ""
    /\ status' = ""
    /\ rowcount' = 0 - 1
    /\ reports' = [t \in Titles |-> NotRun]
    /\ pc' = "crud"

\* "Create" with the form submitted: the INSERT raises IntegrityError on a
\* Food_ID the table holds, and nothing catches it, so the run ends there
Create(food_id, form) ==
    /\ pc = "crud"
    /\ crud_choice' = "Create"
    /\ IF UniqueViolation(Food_Listings, food_id)
       THEN /\ status' = "IntegrityError"
            /\ pc' = "done"
            /\ UNCHANGED <<Food_Listings, rowcount>>
       ELSE /\ Food_Listings' = Food_Listings \cup
                   { Listing(food_id, form.name, form.ftype, form.mtype, form.qty,
                             strftime(form.expiry), form.pid, form.loc) }
            /\ rowcount' = 1
            /\ status' = "Food added!"
            /\ pc' = "reports"
    /\ UNCHANGED <<Providers, Receivers, Claims, today, filters, filtered, reports>>

\* "Update" with the button pressed
Update(fid, new_qty) ==
    /\ pc = "crud"
    /\ crud_choice' = "Update"
    /\ Food_Listings' = UpdateQuantity(Food_Listings, fid, new_qty)
    /\ rowcount' = Matched(Food_Listings, fid)
    /\ status' = "Updated!"
    /\ pc' = "reports"
    /\ UNCHANGED <<Providers, Receivers, Claims, today, filters, filtered, reports>>

\* "Delete" with the button pressed
Delete(fid) ==
    /\ pc = "crud"
    /\ crud_choice' = "Delete"
    /\ Food_Listings' = DeleteListing(Food_Listings, fid)
    /\ rowcount' = Matched(Food_Listings, fid)
    /\ status' = "Deleted!"
    /\ pc' = "reports"
    /\ UNCHANGED <<Providers, Receivers, Claims, today, filters, filtered, reports>>

\* "Read": the listings are shown, nothing is written
Read ==
    /\ pc = "crud"
    /\ crud_choice' = "Read"
    /\ pc' = "reports"
    /\ UNCHANGED <<tables, today, filters, filtered, status, rowcount, reports>>

\* "Create", "Update" or "Delete" chosen and the button not pressed
NoSubmit(choice) ==
    /\ pc = "crud"
    /\ crud_choice' = choice
    /\ pc' = "reports"
    /\ UNCHANGED <<tables, today, filters, filtered, status, rowcount, reports>>

\* The loop over the report catalogue, each query in its own try/except
Reports ==
    /\ pc = "reports"
    /\ \E cp \in ClaimsPerFoodItem(Food_Listings, Claims),
          cc \in ClaimsByCity(Food_Listings, Claims),
          ne \in ListingsNearExpiry(Food_Listings, today) :
          reports' = [t \in Titles |->
                        CASE t = "Total Food Available" -> TotalFoodAvailable(Food_Listings)
                          [] t = "Claims Per Food Item" -> cp
                          [] t = "Claims by City" -> cc
                          [] t = "Listings Near Expiry" -> ne]
    /\ pc' = "done"
    /\ UNCHANGED <<tables, today, filters, filtered, crud_choice, status, rowcount>>

Next ==
    \/ \E in \in RunInputs : Startup(in[1], in[2])
    \/ \E food_id \in FoodIds, form \in FormInputs : Create(food_id, form)
    \/ \E fid \in FoodIds, new_qty \in QuantityInputs : Update(fid, new_qty)
    \/ \E fid \in FoodIds : Delete(fid)
    \/ Read
    \/ \E choice \in {"Create", "Update", "Delete"} : NoSubmit(choice)
    \/ Reports

Spec == Init /\ [][Next]_vars

-----------------------------------------------------------------------------
(* Notions the properties are stated in *)

Ran == \A t \in Titles : reports[t].state # "not run"

ListingIds(F) == { r.Food_ID : r \in F }

\* text contains part as a substring, ASCII case apart
Contains(text, part) ==
    \E i \in 0..(Len(text) - Len(part)) :
        \A j \in 1..Len(part) : Lower(text[i + j]) = Lower(part[j])

RECURSIVE SumQuantity(_)
\* The arithmetic sum of Quantity over a set of listings
SumQuantity(F) ==
    IF F = {} THEN 0
    ELSE LET r == CHOOSE x \in F : TRUE
         IN  r.Quantity + SumQuantity(F \ {r})

IsLeap(y) == (y % 4 = 0 /\ y % 100 # 0) \/ y % 400 = 0

DaysBefore == <<0, 31, 59, 90, 120, 151, 181, 212, 243, 273, 304, 334>>

\* The number of the calendar day written as the text YYYY-MM-DD, counting
\* the days of the proleptic Gregorian calendar
DayNumber(t) ==
    LET d == ParseYMD(t)
        y == d[1] - 1
    IN  365 * y + (y \div 4) - (y \div 100) + (y \div 400)
          + DaysBefore[d[2]] + (IF d[2] > 2 /\ IsLeap(d[1]) THEN 1 ELSE 0) + d[3]

ClaimCount(fid) == Cardinality({ c \in Claims : c.Food_ID = fid })

NearRow(r) ==
    [Food_ID |-> r.Food_ID, Food_Name |-> r.Food_Name, Quantity |-> r.Quantity,
     Expiry_Date |-> r.Expiry_Date, Location |-> r.Location]

Rows(t) == reports[t].rows

RowSet(t) == { Rows(t)[i] : i \in 1..Len(Rows(t)) }

-----------------------------------------------------------------------------
(* C1 *)

NoDuplicateFoodId ==
    \A r1, r2 \in Food_Listings : r1.Food_ID = r2.Food_ID => r1 = r2

DuplicateCreateRefused ==
    \A food_id \in FoodIds, form \in FormInputs :
        (Create(food_id, form) /\ food_id \in ListingIds(Food_Listings))
            => (status' = "IntegrityError" /\ Food_Listings' = Food_Listings)

\* C1: a Create with a Food_ID that Food_Listings already holds fails with
\* IntegrityError and leaves Food_Listings as it was, and no two listings ever
\* share a Food_ID
C1_DuplicateCreate == []NoDuplicateFoodId /\ [][DuplicateCreateRefused]_vars

\* A Create of an id that was taken has just failed
C1_Witness ==
    /\ crud_choice = "Create" /\ status = "IntegrityError"
    /\ Cardinality(Food_Listings) = 2

-----------------------------------------------------------------------------
(* C2 *)

\* C2: a Create that fails on a duplicate id does not end the run: the reports
\* that follow the CRUD section are still run in it
C2_ReportsAfterFailedCreate ==
    (pc = "done" /\ status = "IntegrityError") => Ran

-----------------------------------------------------------------------------
(* C3 *)

UpdateFrame ==
    \A fid \in FoodIds, new_qty \in QuantityInputs :
        Update(fid, new_qty) =>
            /\ Providers' = Providers /\ Receivers' = Receivers /\ Claims' = Claims
            /\ Cardinality(Food_Listings') = Cardinality(Food_Listings)
            /\ \A r \in Food_Listings :
                  IF r.Food_ID = fid
                  THEN \E u \in Food_Listings' :
                          /\ u.Quantity = new_qty
                          /\ u.Food_ID = r.Food_ID /\ u.Food_Name = r.Food_Name
                          /\ u.Food_Type = r.Food_Type /\ u.Meal_Type = r.Meal_Type
                          /\ u.Expiry_Date = r.Expiry_Date
                          /\ u.Provider_ID = r.Provider_ID /\ u.Location = r.Location
                  ELSE r \in Food_Listings'
            /\ fid \notin ListingIds(Food_Listings) => Food_Listings' = Food_Listings

\* C3: Update changes the Quantity of the row with the given Food_ID and
\* nothing else in any table; with no such row every table is left as it was
C3_UpdateFrame == [][UpdateFrame]_vars

\* An Update has just changed the quantity of one of two listings
C3_Witness ==
    /\ pc = "reports" /\ status = "Updated!" /\ rowcount = 1
    /\ \E r, o \in Food_Listings : r.Quantity = 30 /\ o.Quantity # 30

-----------------------------------------------------------------------------
(* C4 *)

DeleteFrame ==
    \A fid \in FoodIds :
        Delete(fid) =>
            /\ Providers' = Providers /\ Receivers' = Receivers /\ Claims' = Claims
            /\ Food_Listings' \subseteq Food_Listings
            /\ \A r \in Food_Listings : r \in Food_Listings' <=> r.Food_ID # fid
            /\ fid \notin ListingIds(Food_Listings) => Food_Listings' = Food_Listings

\* C4: Delete removes the row with the given Food_ID and no other row, does
\* nothing when there is no such row, and never touches Claims
C4_DeleteFrame == [][DeleteFrame]_vars

\* A Delete has just removed a listing that a claim refers to, another
\* listing is still there, and the claim is left dangling
C4_Witness ==
    /\ pc = "reports" /\ status = "Deleted!" /\ rowcount = 1
    /\ Food_Listings # {}
    /\ \E c \in Claims : c.Food_ID \notin ListingIds(Food_Listings)

-----------------------------------------------------------------------------
(* C5 *)

Satisfies(r, f) ==
    /\ f.city # Empty => Contains(r.Location, f.city)
    /\ f.provider # Empty =>
          \E p \in Providers : p.Provider_ID = r.Provider_ID /\ Contains(p.Name, f.provider)
    /\ f.food_type # Empty => Contains(r.Food_Type, f.food_type)

\* C5: the filtered listing is exactly the set of listings whose Location
\* contains the city filter, whose provider's Name contains the provider
\* filter and whose Food_Type contains the food type filter, an empty filter
\* asking nothing
C5_FilteredExactly ==
    pc = "crud" => filtered = { r \in Food_Listings : Satisfies(r, filters) }

-----------------------------------------------------------------------------
(* C6 *)

\* A run of the script begins exactly when pc becomes "crud"
InitDbOnce ==
    (pc # "crud" /\ pc' = "crud") =>
        IF pc = "start"
        THEN /\ Cardinality(Providers') = 2 /\ Cardinality(Receivers') = 2
             /\ Cardinality(Food_Listings') = 2 /\ Cardinality(Claims') = 2
        ELSE tables' = tables

\* C6: init_db inserts the 2 providers, 2 receivers, 2 listings and 2 claims
\* on the first run, and on every later run leaves the four tables as they are
C6_InitDbIdempotent == [][InitDbOnce]_vars

\* A later run has begun on a database whose seed listings were both
\* deleted, and init_db has not put them back
C6_Witness ==
    /\ pc = "crud" /\ Providers = SeedProviders
    /\ Food_Listings \cap SeedListings = {}

-----------------------------------------------------------------------------
(* C7 *)

Total(v) == Succeeded(<< [Total_Quantity |-> v] >>)

\* C7 as stated: 'Total Food Available' is the arithmetic sum of Quantity
\* over the rows of Food_Listings, after any sequence of operations
C7_TotalIsSum ==
    (pc = "done" /\ Ran) =>
        reports["Total Food Available"] = Total(SqlInt(SumQuantity(Food_Listings)))

\* C7 amended: 'Total Food Available' is the arithmetic sum of Quantity over
\* the rows of Food_Listings when there is at least one row (150 on the seed
\* rows), and NULL when Food_Listings has no row
C7_TotalIsSumOrNull ==
    (pc = "done" /\ Ran) =>
        /\ Food_Listings = {} => reports["Total Food Available"] = Total(SqlNull)
        /\ Food_Listings # {} =>
              reports["Total Food Available"] = Total(SqlInt(SumQuantity(Food_Listings)))
        /\ Food_Listings = SeedListings =>
              reports["Total Food Available"] = Total(SqlInt(150))

\* The report has summed listings that are not the seed rows
C7_Witness ==
    /\ pc = "done" /\ Ran
    /\ Cardinality(Food_Listings) = 3 /\ Food_Listings \cap SeedListings = {}
    /\ reports["Total Food Available"] = Total(SqlInt(40))

-----------------------------------------------------------------------------
(* C8 *)

\* C8: 'Listings Near Expiry' holds exactly the listings that expire on or
\* before the day after today, in ascending order of expiry date, all of
\* them; on the seed rows with today = 2025-08-19 it is Bread Packets, then
\* Rice Bags
C8_NearExpiry ==
    (pc = "done" /\ Ran) =>
        LET rows == Rows("Listings Near Expiry")
            near == { r \in Food_Listings :
                        DayNumber(r.Expiry_Date) <= DayNumber(today) + 1 }
        IN  /\ reports["Listings Near Expiry"].state = "ok"
            /\ RowSet("Listings Near Expiry") = { NearRow(r) : r \in near }
            /\ Len(rows) = Cardinality(near)
            /\ \A i, j \in 1..Len(rows) :
                  i < j => DayNumber(rows[i].Expiry_Date) <= DayNumber(rows[j].Expiry_Date)
            /\ (Food_Listings = SeedListings /\ today = strftime(<<2025, 8, 19>>)) =>
                  /\ Len(rows) = 2
                  /\ rows[1].Food_Name = BreadPackets
                  /\ rows[2].Food_Name = RiceBags

\* The report has run with a listing that expires the day after today, which
\* it holds, and one that expires two days after today, which it leaves out
C8_Witness ==
    /\ pc = "done" /\ Ran
    /\ \E r \in Food_Listings :
          /\ DayNumber(r.Expiry_Date) = DayNumber(today) + 1
          /\ NearRow(r) \in RowSet("Listings Near Expiry")
    /\ \E r \in Food_Listings :
          /\ DayNumber(r.Expiry_Date) = DayNumber(today) + 2
          /\ NearRow(r) \notin RowSet("Listings Near Expiry")

-----------------------------------------------------------------------------
(* C9 *)

\* C9: 'Claims Per Food Item' has one row for each listing (there are never
\* more than 10), with the listing's name and the number of Claims rows that
\* have the listing's Food_ID, also when listings share a Food_Name
C9_ClaimsPerListing ==
    (pc = "done" /\ Ran) =>
        LET rows == Rows("Claims Per Food Item")
        IN  \E m \in [Food_Listings -> 1..Len(rows)] :
                /\ \A f, g \in Food_Listings : f # g => m[f] # m[g]
                /\ \A f \in Food_Listings :
                      /\ rows[m[f]].Food_Name = f.Food_Name
                      /\ rows[m[f]].Claims = ClaimCount(f.Food_ID)

-----------------------------------------------------------------------------
(* C10 *)

Locations == { f.Location : f \in Food_Listings }

\* The claims whose Food_ID is that of a listing at the location
ClaimsAt(l) ==
    Cardinality({ c \in Claims :
                    \E f \in Food_Listings : f.Food_ID = c.Food_ID /\ f.Location = l })

CityRowsWellFormed ==
    LET rows == Rows("Claims by City")
    IN  /\ reports["Claims by City"].state = "ok"
        /\ Len(rows) <= ReportLimit
        /\ \A i \in 1..Len(rows) :
              rows[i].City \in Locations /\ rows[i].Claims = ClaimsAt(rows[i].City)
        /\ \A i, j \in 1..Len(rows) : i < j =>
              rows[i].Claims >= rows[j].Claims /\ rows[i].City # rows[j].City
        /\ Food_Listings = SeedListings =>
              RowSet("Claims by City") =
                  { [City |-> Hyderabad, Claims |-> 1], [City |-> Mumbai, Claims |-> 1] }

\* C10 as stated: 'Claims by City' gives, for each Location of a listing, the
\* number of claims on listings at that location, by descending count, at
\* most 10 rows; Hyderabad:1 and Mumbai:1 on the seed rows
C10_EveryLocation ==
    (pc = "done" /\ Ran) =>
        /\ CityRowsWellFormed
        /\ \A l \in Locations : \E i \in 1..Len(Rows("Claims by City")) :
              Rows("Claims by City")[i].City = l

\* C10 amended: 'Claims by City' gives, for each Location of a listing that
\* has at least one claim on a listing there, the number of those claims,
\* by descending count, at most 10 rows; a location with no claim has no
\* row; Hyderabad:1 and Mumbai:1 on the seed rows
C10_ClaimedLocations ==
    (pc = "done" /\ Ran) =>
        /\ CityRowsWellFormed
        /\ \A l \in Locations :
              ClaimsAt(l) > 0 <=> \E i \in 1..Len(Rows("Claims by City")) :
                                     Rows("Claims by City")[i].City = l

\* The report has run with a claimed listing at one location and an
\* unclaimed listing at another
C10_Witness ==
    /\ pc = "done" /\ Ran
    /\ \E l \in Locations : ClaimsAt(l) > 0
    /\ \E l \in Locations : ClaimsAt(l) = 0
    /\ Len(Rows("Claims by City")) > 0

====
